---- MODULE Spec2Model ----
(***************************************************************************)
(* Personal Finance Tracker (src/finance_tracker.py): the menu loop of     *)
(* main, the ledger file expenses.csv, the monthly report and its export.  *)
(*                                                                         *)
(* Texts.  Every string the program reads, stores or writes is a record   *)
(* [k, s, a, b, c]:                                                        *)
(*   Str(s)            the literal text s                                  *)
(*   Num(v, dg)        a decimal numeral with dg digits after the point,   *)
(*                     denoting v/1000 ("5.5" is Num(5500, 1))             *)
(*   DateText(y,m,d,p) the text y-m-d, month and day zero-padded iff p     *)
(*   NoneVal           Python's None                                       *)
(* Amounts are exact integers in thousandths; the modelled amounts stay    *)
(* far from where binary floating point and exact decimals round apart.    *)
(* A CSV file is the sequence of its rows, a row the sequence of its field *)
(* texts: the quoting layer of the csv module is lossless for string       *)
(* fields and is not modelled; DictReader, DictWriter, strptime, strftime, *)
(* float and the .2f format are.                                           *)
(***************************************************************************)
EXTENDS Integers, Sequences, FiniteSets, TLC

VARIABLES
    pc,               \* position of main: which input() call comes next
    files,            \* the file system: name -> [exists, rows]
    input,            \* the text the last input() returned (NoneVal: none read)
    out,              \* the messages printed by the last step
    crash,            \* the uncaught exception that ended the process, if any
    date_obj,         \* add_expense local
    category,         \* add_expense local
    description,      \* add_expense local
    year,             \* monthly_report local
    month,            \* monthly_report local
    expenses,         \* monthly_report local: result of get_monthly_expenses
    category_totals,  \* monthly_report local: sequence of <<category, total>>
    grand_total,      \* monthly_report local
    added             \* history: the rows add_expense has written in this run

vars == <<pc, files, input, out, crash, date_obj, category, description,
          year, month, expenses, category_totals, grand_total, added>>

(***************************** bounds **************************************)
MaxAdds == 2

(***************************** texts ***************************************)
Str(s) == [k |-> "str", s |-> s, a |-> 0, b |-> 0, c |-> 0]
Num(v, dg) == [k |-> "num", s |-> "", a |-> v, b |-> dg, c |-> 0]
DateText(y, m, d, padded) ==
    [k |-> "date", s |-> IF padded THEN "0" ELSE "", a |-> y, b |-> m, c |-> d]
NoneVal == [k |-> "none", s |-> "", a |-> 0, b |-> 0, c |-> 0]

\* str.strip() on the texts the model types in
Strip(t) ==
    IF t.k # "str" THEN t
    ELSE CASE t.s = " " -> Str("")
           [] t.s = " Travel " -> Str("Travel")
           [] t.s = " Bus " -> Str("Bus")
           [] OTHER -> t

\* str.lower() on the texts the model types in
Lower(t) == IF t = Str("Y") THEN Str("y") ELSE t

EXPENSES_FILE == "expenses.csv"

HeaderRow == <<Str("date"), Str("category"), Str("description"), Str("amount")>>

(***************************** dates ***************************************)
IsLeap(y) == (y % 4 = 0 /\ y % 100 # 0) \/ y % 400 = 0

DaysIn(y, m) ==
    IF m = 2 THEN (IF IsLeap(y) THEN 29 ELSE 28)
    ELSE IF m \in {4, 6, 9, 11} THEN 30 ELSE 31

\* datetime.strptime(date_str, "%Y-%m-%d"): ok = FALSE stands for ValueError.
\* %m and %d accept one or two digits; the day must exist in the calendar.
parse_date(t) ==
    IF /\ t.k = "date"
       /\ t.a \in 1..9999
       /\ t.b \in 1..12
       /\ t.c \in 1..DaysIn(t.a, t.b)
    THEN [ok |-> TRUE, y |-> t.a, m |-> t.b, d |-> t.c]
    ELSE [ok |-> FALSE, y |-> 0, m |-> 0, d |-> 0]

\* date_obj.strftime("%Y-%m-%d")
strftime(dt) == DateText(dt.y, dt.m, dt.d, TRUE)

\* datetime.today() during the run
Today == [ok |-> TRUE, y |-> 2025, m |-> 4, d |-> 2]

(***************************** amounts *************************************)
\* float(value): ok = FALSE stands for ValueError; a None argument raises
\* TypeError instead, which callers test before calling.
float(t) ==
    IF t.k = "num" THEN [ok |-> TRUE, v |-> t.a] ELSE [ok |-> FALSE, v |-> 0]

\* f"{amount:.2f}" for amount >= 0: the nearest multiple of 0.01
Format2f(v) == Num(((v + 5) \div 10) * 10, 2)

\* mutant: the test written `amount < 0`, so that zero is accepted
AmountAccepted_Mut(v) == v >= 0

\* get_valid_float's test `amount <= 0` negated
AmountAccepted(v) == v > 0

\* str.isdigit() and int(): a numeral with no sign and no decimal point
IsDigit(t) == t.k = "num" /\ t.b = 0 /\ t.a >= 0 /\ t.a % 1000 = 0
int(t) == t.a \div 1000

(***************************** csv *****************************************)
Last(s) == s[Len(s)]

\* the position of the last field of the header named key (0: none)
LastIndexOf(fieldnames, key) ==
    LET hits == {i \in 1..Len(fieldnames) : fieldnames[i] = key}
    IN IF hits = {} THEN 0 ELSE CHOOSE i \in hits : \A j \in hits : j <= i

\* One row of csv.DictReader: f maps each field name to the row's value
\* (None when the row is short), rest holds the values past the header
\* (stored under the key None when there are any).
RowToDict(fieldnames, row) ==
    [f |-> [key \in {fieldnames[i] : i \in 1..Len(fieldnames)} |->
               LET i == LastIndexOf(fieldnames, key)
               IN IF i <= Len(row) THEN row[i] ELSE NoneVal],
     rest |-> IF Len(row) > Len(fieldnames)
              THEN SubSeq(row, Len(fieldnames) + 1, Len(row))
              ELSE <<>>]

RECURSIVE DictRows(_, _)
DictRows(fieldnames, rows) ==
    IF rows = <<>> THEN <<>>
    ELSE IF Head(rows) = <<>>
         THEN DictRows(fieldnames, Tail(rows))
         ELSE <<RowToDict(fieldnames, Head(rows))>> \o DictRows(fieldnames, Tail(rows))

\* csv.DictReader(f): the first row names the fields, blank rows are skipped
DictReader(rows) ==
    IF rows = <<>> THEN <<>> ELSE DictRows(Head(rows), Tail(rows))

HasKey(exp, key) == key \in DOMAIN exp.f

(***************************** messages ************************************)
MsgCreateError == "Error: Could not create expenses file."
MsgInvalidDate == "Invalid date format. Please use YYYY-MM-DD (or press Enter for today)."
MsgAmountPositive == "Amount must be positive."
MsgInvalidAmount == "Invalid amount. Please enter a number."
MsgEmptyInput == "Input cannot be empty."
MsgAdded == "Expense added successfully."
MsgWriteError == "Error: Could not write to expenses file."
MsgNoFile == "No expenses file found yet."
MsgReadError == "Error: Could not read expenses file."
MsgNoExpenses == "No expenses recorded yet."
MsgListing == "listing"
MsgInvalidYear == "Invalid year. Example: 2025"
MsgInvalidMonth == "Invalid month. Enter a number between 1 and 12."
MsgNoneFound == "No expenses found for the month."
MsgTotals == "Category-wise Totals, Grand Total"
MsgExported == "Monthly report exported"
MsgNotExported == "Report not exported."
MsgReportError == "Error: Could not write report file."
MsgMenu == "====== Personal Finance Tracker ======"
MsgGoodbye == "Exiting... Goodbye!"
MsgInvalidChoice == "Invalid choice. Please select 1-4."

(***************************** files ***************************************)
AbsentFile == [exists |-> FALSE, rows |-> <<>>]
FileOf(rows) == [exists |-> TRUE, rows |-> rows]

\* mutant: the export opens the ledger's own file
ReportName_Mut(y, m) == EXPENSES_FILE

\* f"report_{year}_{month:02d}.csv"
ReportName(y, m) ==
    "report_" \o ToString(y) \o "_" \o (IF m < 10 THEN "0" ELSE "") \o ToString(m) \o ".csv"

\* open(name, "a") then writer.writerow(row): the file is created when absent
AppendRow(file, row) == FileOf(file.rows \o <<row>>)

(***************************** reading *************************************)
\* read_all_expenses; io = "open_fails" is the IOError branch
read_all_expenses(file, io) ==
    IF ~file.exists THEN [val |-> <<>>, msgs |-> <<MsgNoFile>>]
    ELSE IF io = "open_fails" THEN [val |-> <<>>, msgs |-> <<MsgReadError>>]
    ELSE [val |-> DictReader(file.rows), msgs |-> <<>>]

NoCrash == [exc |-> "", fn |-> ""]
Raised(exc, fn) == [exc |-> exc, fn |-> fn]

PrintedKeys == <<Str("date"), Str("category"), Str("description"), Str("amount")>>

\* the f-string of view_all_expenses looks the four keys up in every record
view_all_expenses(exps) ==
    IF exps = <<>> THEN [msgs |-> <<MsgNoExpenses>>, crash |-> NoCrash]
    ELSE IF \E i \in 1..Len(exps) : \E j \in 1..4 : ~HasKey(exps[i], PrintedKeys[j])
         THEN [msgs |-> <<>>, crash |-> Raised("KeyError", "view_all_expenses")]
         ELSE [msgs |-> <<MsgListing>>, crash |-> NoCrash]

RECURSIVE FilterLoop(_, _, _, _)
FilterLoop(exps, y, m, monthly) ==
    IF exps = <<>> THEN [exc |-> "", val |-> monthly]
    ELSE LET exp == Head(exps)
         IN IF ~HasKey(exp, Str("date"))
            THEN [exc |-> "KeyError", val |-> monthly]
            ELSE IF exp.f[Str("date")] = NoneVal
            THEN [exc |-> "TypeError", val |-> monthly]
            ELSE LET dt == parse_date(exp.f[Str("date")])
                 IN IF ~dt.ok
                    THEN FilterLoop(Tail(exps), y, m, monthly)
                    ELSE IF dt.y = y /\ dt.m = m
                         THEN FilterLoop(Tail(exps), y, m, Append(monthly, exp))
                         ELSE FilterLoop(Tail(exps), y, m, monthly)

\* get_monthly_expenses, given what read_all_expenses returned
get_monthly_expenses(exps, y, m) == FilterLoop(exps, y, m, <<>>)

(***************************** summary *************************************)
TotalsKeys(totals) == {totals[i][1] : i \in 1..Len(totals)}

\* where category_totals holds cat (0: not a key)
TotalsIndex(totals, cat) ==
    IF cat \in TotalsKeys(totals)
    THEN (CHOOSE i \in 1..Len(totals) : totals[i][1] = cat)
    ELSE 0

\* mutant: the category's total is overwritten instead of added to
TotalsAdd_Mut(totals, cat, amount) ==
    LET i == TotalsIndex(totals, cat)
    IN IF i = 0 THEN Append(totals, <<cat, amount>>)
       ELSE [totals EXCEPT ![i] = <<cat, amount>>]

\* category_totals[cat] = category_totals.get(cat, 0.0) + amount
TotalsAdd(totals, cat, amount) ==
    LET i == TotalsIndex(totals, cat)
    IN IF i = 0 THEN Append(totals, <<cat, amount>>)
       ELSE [totals EXCEPT ![i] = <<cat, totals[i][2] + amount>>]

\* the loop of monthly_report over the month's records
RECURSIVE SummaryLoop(_, _, _)
SummaryLoop(exps, totals, grand) ==
    IF exps = <<>> THEN [exc |-> "", totals |-> totals, grand |-> grand]
    ELSE LET exp == Head(exps)
         IN IF ~HasKey(exp, Str("amount"))
            THEN [exc |-> "KeyError", totals |-> totals, grand |-> grand]
            ELSE IF exp.f[Str("amount")] = NoneVal
            THEN [exc |-> "TypeError", totals |-> totals, grand |-> grand]
            ELSE LET fl == float(exp.f[Str("amount")])
                     amount == IF fl.ok THEN fl.v ELSE 0
                 IN IF ~HasKey(exp, Str("category"))
                    THEN [exc |-> "KeyError", totals |-> totals, grand |-> grand + amount]
                    ELSE IF ~HasKey(exp, Str("description"))
                    THEN [exc |-> "KeyError",
                          totals |-> TotalsAdd(totals, exp.f[Str("category")], amount),
                          grand |-> grand + amount]
                    ELSE SummaryLoop(Tail(exps),
                                     TotalsAdd(totals, exp.f[Str("category")], amount),
                                     grand + amount)

(***************************** export **************************************)
\* DictWriter with extrasaction="raise": a key outside fieldnames (the key
\* None of a row longer than the header included) raises ValueError
WrongFields(exp) ==
    exp.rest # <<>> \/ \E key \in DOMAIN exp.f : \A j \in 1..4 : HeaderRow[j] # key

\* DictWriter._dict_to_list and the writer: a missing key and None are ''
DictToRow(exp) ==
    [j \in 1..4 |->
        IF HasKey(exp, HeaderRow[j]) /\ exp.f[HeaderRow[j]] # NoneVal
        THEN exp.f[HeaderRow[j]]
        ELSE Str("")]

RECURSIVE WriteRows(_, _)
WriteRows(exps, rows) ==
    IF exps = <<>> THEN [exc |-> "", rows |-> rows]
    ELSE IF WrongFields(Head(exps))
         THEN [exc |-> "ValueError", rows |-> rows]
         ELSE WriteRows(Tail(exps), Append(rows, DictToRow(Head(exps))))

\* export_monthly_report after a successful open(filename, "w")
export_monthly_report(exps) == WriteRows(exps, <<HeaderRow>>)

(***************************** inputs **************************************)
\* what the user may type at each prompt
ChoiceInputs == {Str("1"), Str("2"), Str("3"), Str("4"), Str("9")}
DateInputs == {Str(""), DateText(2025, 3, 1, FALSE), DateText(2025, 2, 30, TRUE),
               Str("01/03/2025")}
CategoryInputs == {Str("Food"), Str(" Travel "), Str(" "), Str("")}
DescriptionInputs == {Str(" Bus ")}
AmountInputs == {Num(5500, 1), Num(4, 3), Num(0, 0), Num(-1000, 0), Str("abc")}
YearInputs == {Num(2025000, 0), Num(25000, 0)}
MonthInputs == {Num(3000, 0), Num(4000, 0), Num(13000, 0), Str("")}
ExportInputs == {Str("Y"), Str("y"), Str("n")}

\* outcomes of opening a file: "open_fails" is the IOError branch (an error
\* after a successful open is not modelled)
IoOutcomes == {"ok", "open_fails"}

\* rows a ledger written by an earlier run or edited by hand may hold
InitRows ==
    { <<DateText(2025, 3, 1, TRUE), Str("Food"), Str("Lunch"), Num(10000, 2)>>,
      <<Str("01/03/2025"), Str("Food"), Str("Lunch"), Num(5500, 2)>>,
      <<DateText(2025, 3, 15, TRUE), Str("Misc"), Str("Gift"), Str("abc")>>,
      <<DateText(2025, 3, 20, TRUE), Str("Food")>>,
      <<DateText(2025, 3, 21, TRUE), Str("Food"), Str("Tea"), Num(2000, 2), Str("extra")>>,
      <<>> }

\* the ledger file before the program starts: absent, header only, or the
\* header and one of the rows above
InitLedgers ==
    {AbsentFile, FileOf(<<HeaderRow>>)} \cup {FileOf(<<HeaderRow, r>>) : r \in InitRows}

ReportNames ==
    {ReportName(int(y), int(m)) :
        y \in {t \in YearInputs : IsDigit(t)}, m \in {t \in MonthInputs : IsDigit(t)}}

FileNames == {EXPENSES_FILE} \cup ReportNames

NoDate == [ok |-> FALSE, y |-> 0, m |-> 0, d |-> 0]

Ledger == files[EXPENSES_FILE]

(***************************** state machine *******************************)
Init ==
    /\ pc = "start"
    /\ \E l \in InitLedgers :
          files = [n \in FileNames |-> IF n = EXPENSES_FILE THEN l ELSE AbsentFile]
    /\ input = NoneVal
    /\ out = <<>>
    /\ crash = NoCrash
    /\ date_obj = NoDate
    /\ category = NoneVal
    /\ description = NoneVal
    /\ year = 0
    /\ month = 0
    /\ expenses = <<>>
    /\ category_totals = <<>>
    /\ grand_total = 0
    /\ added = <<>>

AddLocalsReset ==
    /\ date_obj' = NoDate
    /\ category' = NoneVal
    /\ description' = NoneVal

ReportLocalsReset ==
    /\ year' = 0
    /\ month' = 0
    /\ expenses' = <<>>
    /\ category_totals' = <<>>
    /\ grand_total' = 0

AddLocals == <<date_obj, category, description>>
ReportLocals == <<year, month, expenses, category_totals, grand_total>>

\* ensure_file_exists, called first by main
EnsureFileExists ==
    /\ pc = "start"
    /\ pc' = "loop"
    /\ IF Ledger.exists
       THEN /\ out' = <<>>
            /\ UNCHANGED files
       ELSE \E io \in IoOutcomes :
               /\ files' = [files EXCEPT ![EXPENSES_FILE] =
                               IF io = "ok" THEN FileOf(<<HeaderRow>>) ELSE @]
               /\ out' = IF io = "ok" THEN <<>> ELSE <<MsgCreateError>>
    /\ UNCHANGED <<input, crash, AddLocals, ReportLocals, added>>

\* main: the top of the loop, print_menu; the locals of the operation that
\* has returned, and the texts it read, are out of scope
PrintMenu ==
    /\ pc = "loop"
    /\ pc' = "menu"
    /\ input' = NoneVal
    /\ out' = <<MsgMenu>>
    /\ AddLocalsReset
    /\ ReportLocalsReset
    /\ UNCHANGED <<files, crash, added>>

\* main: choice "1", add_expense starts and asks for the date
ChooseAdd ==
    /\ pc = "menu"
    /\ Len(added) < MaxAdds
    /\ input' = Strip(Str("1"))
    /\ pc' = "add_date"
    /\ out' = <<>>
    /\ UNCHANGED <<files, crash, AddLocals, ReportLocals, added>>

\* main: choice "2", view_all_expenses runs to its end
ChooseView ==
    /\ pc = "menu"
    /\ input' = Strip(Str("2"))
    /\ \E io \in {"ok", "open_fails"} :
          LET r == read_all_expenses(Ledger, io)
              v == view_all_expenses(r.val)
          IN /\ out' = r.msgs \o v.msgs
             /\ crash' = v.crash
             /\ pc' = IF v.crash = NoCrash THEN "loop" ELSE "crashed"
    /\ UNCHANGED <<files, AddLocals, ReportLocals, added>>

\* main: choice "3", monthly_report starts and asks for the year
ChooseReport ==
    /\ pc = "menu"
    /\ input' = Strip(Str("3"))
    /\ pc' = "rep_year"
    /\ out' = <<>>
    /\ UNCHANGED <<files, crash, AddLocals, ReportLocals, added>>

\* main: choice "4", the loop breaks
ChooseExit ==
    /\ pc = "menu"
    /\ input' = Strip(Str("4"))
    /\ pc' = "done"
    /\ out' = <<MsgGoodbye>>
    /\ UNCHANGED <<files, crash, AddLocals, ReportLocals, added>>

\* main: any other choice
ChooseInvalid ==
    /\ pc = "menu"
    /\ \E t \in ChoiceInputs :
          /\ Strip(t) \notin {Str("1"), Str("2"), Str("3"), Str("4")}
          /\ input' = Strip(t)
    /\ pc' = "loop"
    /\ out' = <<MsgInvalidChoice>>
    /\ UNCHANGED <<files, crash, AddLocals, ReportLocals, added>>

\* get_valid_date: one round of its loop
AddDate ==
    /\ pc = "add_date"
    /\ \E t \in DateInputs :
          LET date_str == Strip(t)
          IN /\ input' = date_str
             /\ IF date_str = Str("")
                THEN /\ date_obj' = Today
                     /\ pc' = "add_cat"
                     /\ out' = <<>>
                ELSE IF parse_date(date_str).ok
                THEN /\ date_obj' = parse_date(date_str)
                     /\ pc' = "add_cat"
                     /\ out' = <<>>
                ELSE /\ out' = <<MsgInvalidDate>>
                     /\ UNCHANGED <<pc, date_obj>>
    /\ UNCHANGED <<files, crash, category, description, ReportLocals, added>>

\* get_non_empty_input: one round of its loop
AddCategory ==
    /\ pc = "add_cat"
    /\ \E t \in CategoryInputs :
          LET text == Strip(t)
          IN /\ input' = text
             /\ IF text # Str("")
                THEN /\ category' = text
                     /\ pc' = "add_desc"
                     /\ out' = <<>>
                ELSE /\ out' = <<MsgEmptyInput>>
                     /\ UNCHANGED <<pc, category>>
    /\ UNCHANGED <<files, crash, date_obj, description, ReportLocals, added>>

\* description = input(...).strip()
AddDescription ==
    /\ pc = "add_desc"
    /\ \E t \in DescriptionInputs :
          /\ input' = Strip(t)
          /\ description' = Strip(t)
    /\ pc' = "add_amount"
    /\ out' = <<>>
    /\ UNCHANGED <<files, crash, date_obj, category, ReportLocals, added>>

\* the row add_expense builds
ExpenseRow(dt, cat, desc, amount) == <<strftime(dt), cat, desc, Format2f(amount)>>

\* get_valid_float: one round of its loop; on a valid amount the rest of
\* add_expense runs: the row is built and appended to the ledger file
AddAmount ==
    /\ pc = "add_amount"
    /\ \E t \in AmountInputs :
          LET value == Strip(t)
              fl == float(value)
          IN /\ input' = value
             /\ IF ~fl.ok
                THEN /\ out' = <<MsgInvalidAmount>>
                     /\ UNCHANGED <<pc, files, added, AddLocals>>
                ELSE IF ~AmountAccepted(fl.v)
                THEN /\ out' = <<MsgAmountPositive>>
                     /\ UNCHANGED <<pc, files, added, AddLocals>>
                ELSE LET row == ExpenseRow(date_obj, category, description, fl.v)
                     IN /\ pc' = "loop"
                        /\ UNCHANGED AddLocals
                        /\ \E io \in IoOutcomes :
                              /\ files' = [files EXCEPT ![EXPENSES_FILE] =
                                              IF io = "ok" THEN AppendRow(@, row) ELSE @]
                              /\ added' = IF io = "ok" THEN Append(added, row) ELSE added
                              /\ out' = IF io = "ok" THEN <<MsgAdded>> ELSE <<MsgWriteError>>
    /\ UNCHANGED <<crash, ReportLocals>>

\* monthly_report: one round of the year loop
ReportYear ==
    /\ pc = "rep_year"
    /\ \E t \in YearInputs :
          LET year_str == Strip(t)
          IN /\ input' = year_str
             /\ IF IsDigit(year_str) /\ int(year_str) \in 1000..9999
                THEN /\ year' = int(year_str)
                     /\ pc' = "rep_month"
                     /\ out' = <<>>
                ELSE /\ out' = <<MsgInvalidYear>>
                     /\ UNCHANGED <<pc, year>>
    /\ UNCHANGED <<files, crash, AddLocals, month, expenses, category_totals,
                   grand_total, added>>

\* monthly_report: one round of the month loop; on a valid month the report
\* is read, filtered, summed and printed, up to the export question
ReportMonth ==
    /\ pc = "rep_month"
    /\ \E t \in MonthInputs :
          LET month_str == Strip(t)
          IN /\ input' = month_str
             /\ IF ~(IsDigit(month_str) /\ int(month_str) \in 1..12)
                THEN /\ out' = <<MsgInvalidMonth>>
                     /\ UNCHANGED <<pc, crash, ReportLocals>>
                ELSE \E io \in {"ok", "open_fails"} :
                        LET r == read_all_expenses(Ledger, io)
                            g == get_monthly_expenses(r.val, year, int(month_str))
                            s == SummaryLoop(g.val, <<>>, 0)
                        IN IF g.exc # ""
                           THEN /\ crash' = Raised(g.exc, "get_monthly_expenses")
                                /\ pc' = "crashed"
                                /\ out' = r.msgs
                                /\ month' = int(month_str)
                                /\ UNCHANGED <<year, expenses, category_totals, grand_total>>
                           ELSE IF g.val = <<>>
                           THEN /\ pc' = "loop"
                                /\ out' = r.msgs \o <<MsgNoneFound>>
                                /\ month' = int(month_str)
                                /\ UNCHANGED <<year, expenses, category_totals, grand_total>>
                                /\ UNCHANGED crash
                           ELSE /\ month' = int(month_str)
                                /\ expenses' = g.val
                                /\ category_totals' = s.totals
                                /\ grand_total' = s.grand
                                /\ UNCHANGED year
                                /\ IF s.exc # ""
                                   THEN /\ crash' = Raised(s.exc, "monthly_report")
                                        /\ pc' = "crashed"
                                        /\ out' = r.msgs
                                   ELSE /\ pc' = "rep_export"
                                        /\ out' = r.msgs \o <<MsgTotals>>
                                        /\ UNCHANGED crash
    /\ UNCHANGED <<files, AddLocals, added>>

\* monthly_report: the export question, and export_monthly_report on "y"
ReportExport ==
    /\ pc = "rep_export"
    /\ \E t \in ExportInputs :
          LET choice == Lower(Strip(t))
              name == ReportName(year, month)
              w == export_monthly_report(expenses)
          IN /\ input' = choice
             /\ IF choice # Str("y")
                THEN /\ out' = <<MsgNotExported>>
                     /\ pc' = "loop"
                     /\ UNCHANGED <<files, crash>>
                ELSE \E io \in IoOutcomes :
                        CASE io = "open_fails" ->
                                /\ out' = <<MsgReportError>>
                                /\ pc' = "loop"
                                /\ UNCHANGED <<files, crash>>
                          [] io = "ok" ->
                                /\ files' = [files EXCEPT ![name] = FileOf(w.rows)]
                                /\ IF w.exc # ""
                                   THEN /\ crash' = Raised(w.exc, "export_monthly_report")
                                        /\ pc' = "crashed"
                                        /\ out' = <<>>
                                   ELSE /\ pc' = "loop"
                                        /\ out' = <<MsgExported>>
                                        /\ UNCHANGED crash
    /\ UNCHANGED <<AddLocals, ReportLocals, added>>

Next ==
    \/ EnsureFileExists
    \/ PrintMenu
    \/ ChooseAdd
    \/ ChooseView
    \/ ChooseReport
    \/ ChooseExit
    \/ ChooseInvalid
    \/ AddDate
    \/ AddCategory
    \/ AddDescription
    \/ AddAmount
    \/ ReportYear
    \/ ReportMonth
    \/ ReportExport

Spec == Init /\ [][Next]_vars

(***************************** properties **********************************)
InOut(msg) == \E i \in 1..Len(out) : out[i] = msg

Front(s) == SubSeq(s, 1, Len(s) - 1)

\* a record as the four named fields of a row
RecordOf(row) ==
    [f |-> (Str("date") :> row[1] @@ Str("category") :> row[2]
            @@ Str("description") :> row[3] @@ Str("amount") :> row[4]),
     rest |-> <<>>]

\* C1: the records read back from the ledger end with exactly the rows that
\* add_expense has written in this run, in the order they were added.
C1_AppendOrderDurability ==
    LET got == read_all_expenses(Ledger, "ok").val
        n == Len(added)
    IN /\ Len(got) >= n
       /\ \A i \in 1..n : got[Len(got) - n + i] = RecordOf(added[i])

AddPcs == {"add_date", "add_cat", "add_desc", "add_amount"}

RejectionReports ==
    {<<MsgInvalidDate>>, <<MsgEmptyInput>>, <<MsgAmountPositive>>, <<MsgInvalidAmount>>}

RECURSIVE NonBlank(_)
NonBlank(rows) ==
    IF rows = <<>> THEN <<>>
    ELSE IF Head(rows) = <<>> THEN NonBlank(Tail(rows))
         ELSE <<Head(rows)>> \o NonBlank(Tail(rows))

RecordLines ==
    IF ~Ledger.exists \/ Ledger.rows = <<>> THEN <<>>
    ELSE IF Head(Ledger.rows) = HeaderRow THEN NonBlank(Tail(Ledger.rows))
         ELSE NonBlank(Ledger.rows)

InMonth(row, y, m) ==
    /\ Len(row) >= 1
    /\ parse_date(row[1]).ok
    /\ parse_date(row[1]).y = y
    /\ parse_date(row[1]).m = m

RECURSIVE MonthLines(_, _, _)
MonthLines(rows, y, m) ==
    IF rows = <<>> THEN <<>>
    ELSE IF InMonth(Head(rows), y, m)
         THEN <<RowToDict(HeaderRow, Head(rows))>> \o MonthLines(Tail(rows), y, m)
         ELSE MonthLines(Tail(rows), y, m)

\* C3: get_monthly_expenses raises nothing and, when the ledger was read,
\* returns exactly the stored records dated in the asked year and month, in
\* their stored order.
C3_MonthlyFilter ==
    /\ crash.fn # "get_monthly_expenses"
    /\ pc = "rep_export" => expenses = MonthLines(RecordLines, year, month)
    /\ (pc = "loop" /\ InOut(MsgNoneFound) /\ ~InOut(MsgReadError))
          => MonthLines(RecordLines, year, month) = <<>>

\* the amount a record contributes: its numeric value, nothing otherwise
AmountOf(exp) ==
    IF HasKey(exp, Str("amount")) /\ exp.f[Str("amount")].k = "num"
    THEN exp.f[Str("amount")].a
    ELSE 0

RECURSIVE SumOfAmounts(_)
SumOfAmounts(exps) ==
    IF exps = <<>> THEN 0 ELSE SumOfAmounts(Front(exps)) + AmountOf(Last(exps))

RECURSIVE SumOfTotals(_)
SumOfTotals(totals) ==
    IF totals = <<>> THEN 0 ELSE SumOfTotals(Front(totals)) + Last(totals)[2]

RECURSIVE CategoriesInOrder(_)
CategoriesInOrder(exps) ==
    IF exps = <<>> THEN <<>>
    ELSE LET before == CategoriesInOrder(Front(exps))
             cat == Last(exps).f[Str("category")]
         IN IF \E i \in 1..Len(before) : before[i] = cat THEN before
            ELSE Append(before, cat)

OfCategory(exps, cat) == SelectSeq(exps, LAMBDA e : e.f[Str("category")] = cat)

C5_ExportRoundTrip ==
    (/\ pc \in {"loop", "crashed"}
     /\ input = Str("y")
     /\ ~InOut(MsgReportError))
       => LET f == files[ReportName(year, month)]
          IN /\ f.exists
             /\ f.rows # <<>>
             /\ Head(f.rows) = HeaderRow
             /\ DictReader(f.rows) = expenses

\* a stored line that parses as a record: a date and a numeric amount
WellFormedLine(row) ==
    /\ Len(row) >= 4
    /\ parse_date(row[1]).ok
    /\ float(row[4]).ok

RECURSIVE WellFormedLines(_)
WellFormedLines(rows) ==
    IF rows = <<>> THEN <<>>
    ELSE IF WellFormedLine(Head(rows))
         THEN <<Head(rows)>> \o WellFormedLines(Tail(rows))
         ELSE WellFormedLines(Tail(rows))

\* the ledger with its malformed lines removed
CleanedRows ==
    IF Ledger.rows = <<>> THEN <<>>
    ELSE <<Head(Ledger.rows)>> \o WellFormedLines(Tail(Ledger.rows))

\* C6: the category totals and the grand total of a monthly report are those
\* of the same ledger with its malformed lines removed.
C6_MalformedLinesSkipped ==
    pc = "rep_export"
       => LET g == get_monthly_expenses(DictReader(CleanedRows), year, month)
              t == SummaryLoop(g.val, <<>>, 0)
          IN /\ category_totals = t.totals
             /\ grand_total = t.grand

\* C7: after start-up the ledger file changes only in add_expense, and the
\* step that answers the export question changes no file except the report
\* file of the asked year and month.
C7_OnlyAddWritesLedger ==
    [][ /\ Ledger' # Ledger => pc \in {"start", "add_amount"}
        /\ pc = "rep_export"
              => \A n \in FileNames \ {ReportName(year, month)} : files'[n] = files[n]
        /\ pc = "rep_export" => Ledger' = Ledger
      ]_vars

\* an export has written its report next to a ledger that holds records
C7_Witness ==
    /\ pc = "loop"
    /\ out = <<MsgExported>>
    /\ files[ReportName(year, month)].exists
    /\ Ledger.exists
    /\ Len(Ledger.rows) > 1

\* C8: the process ends only by choice 4; no operation ends it otherwise.
C8_NoOperationTerminates ==
    /\ pc # "crashed"
    /\ crash = NoCrash
    /\ pc = "done" => input = Str("4")

\* C9: every row add_expense has written holds an amount with two decimals
\* denoting a value > 0, a valid calendar date as zero-padded YYYY-MM-DD and
\* a non-empty trimmed category.
C9_WrittenRecordInvariants ==
    \A i \in 1..Len(added) :
        LET row == added[i]
        IN /\ row[4].k = "num" /\ row[4].b = 2 /\ row[4].a > 0
           /\ row[1].k = "date" /\ row[1].s = "0" /\ parse_date(row[1]).ok
           /\ row[2] # Str("") /\ Strip(row[2]) = row[2]

\* C10: once ensure_file_exists has run, a ledger file that exists starts
\* with the header row.
C10_HeaderInvariant ==
    (pc # "start" /\ Ledger.exists)
       => (Ledger.rows # <<>> /\ Head(Ledger.rows) = HeaderRow)

====
